---- MODULE Spec2Model ----
(***************************************************************************)
(* Rule execution engine of the file mover plugin (src/src/main.ts):       *)
(* the command callback, executeMoveRule, processFolder and moveFile, run  *)
(* on a single-threaded event loop against the vault's file tree.          *)
(*                                                                         *)
(* Scheduling.  The code runs on one thread.  A step that continues a      *)
(* suspended async function whose awaited promise is already settled is a  *)
(* microtask; the completion of vault I/O (createFolder, rename), a user   *)
(* command and a vault event are macrotasks, which the event loop runs     *)
(* only when no microtask is left (Quiet).                                 *)
(***************************************************************************)
EXTENDS Integers, Sequences, FiniteSets, TLC

VARIABLES
    children,           \* TFolder.children of every folder: the live, ordered array
    folders,            \* the folders that exist in the vault
    rules,              \* settings.rules: the rule each command closes over
    showMoveNotification, \* settings.showMoveNotification
    isCommandExecuting, \* the plugin's private flag
    pc,                 \* position of each command callback
    stack,              \* the processFolder frames of each callback, innermost last
    renames,            \* every vault.rename issued so far, in issue order
    notices,            \* invocation-level Notices of each callback, in order
    creates,            \* createFolder calls issued by each callback
    compiles,           \* new RegExp(...) evaluations of each callback
    tests,              \* pattern.test(child.name) evaluations per callback and file
    modNotices,         \* "File moved" Notices of the modify observer
    startedAfter,       \* history: the callbacks that had ended when this one began
    visited,            \* history: the folders processFolder was called on, per callback
    children0           \* history: the children arrays of the initial tree

vars == <<children, folders, rules, showMoveNotification, isCommandExecuting, pc,
          stack, renames, notices, creates, compiles, tests, modNotices,
          startedAfter, visited, children0>>

-----------------------------------------------------------------------------
(* The vault: entries, names, paths.                                       *)

Null == "null"

\* The registered commands (main.ts:39-49), one per rule.
Inv == {"cmd1", "cmd2"}

Folders == {"Inbox", "Archive", "PDFs", "Out"}
Files == {"fa", "fb", "fc", "fd", "fx", "fy"}
Entries == Folders \cup Files

\* TAbstractFile.name of every entry.
Name(e) ==
    CASE e = "fa" -> "a.pdf"
      [] e = "fb" -> "b.txt"
      [] e = "fc" -> "c.pdf"
      [] e = "fd" -> "d.pdf"
      [] e = "fx" -> "a.pdf"
      [] e = "fy" -> "c.pdf"
      [] OTHER -> e

\* The characters of a name, for the regular expression to read.
Chars(n) ==
    CASE n = "a.pdf" -> <<"a", ".", "p", "d", "f">>
      [] n = "b.txt" -> <<"b", ".", "t", "x", "t">>
      [] n = "c.pdf" -> <<"c", ".", "p", "d", "f">>
      [] n = "d.pdf" -> <<"d", ".", "p", "d", "f">>
      [] OTHER -> <<n>>

\* Folders never move: the path of each is fixed. A path is its list of names.
FolderPath(d) ==
    CASE d = "Inbox" -> <<"Inbox">>
      [] d = "Archive" -> <<"Inbox", "Archive">>
      [] d = "PDFs" -> <<"Inbox", "PDFs">>
      [] d = "Out" -> <<"Out">>

Range(s) == {s[k] : k \in 1..Len(s)}

Front(s) == SubSeq(s, 1, Len(s) - 1)

\* removal of one entry from a children array (Array.prototype.remove)
Remove(s, e) == SelectSeq(s, LAMBDA x : x # e)

Present(ch, fs) == fs \cup {f \in Files : \E d \in fs : f \in Range(ch[d])}

ParentOf(ch, fs, e) ==
    IF e \in Files
    THEN CHOOSE d \in fs : e \in Range(ch[d])
    ELSE IF \E d \in fs : FolderPath(d) = Front(FolderPath(e))
         THEN CHOOSE d \in fs : FolderPath(d) = Front(FolderPath(e))
         ELSE Null

\* TAbstractFile.path
PathOf(ch, fs, e) ==
    IF e \in Folders THEN FolderPath(e)
    ELSE Append(FolderPath(ParentOf(ch, fs, e)), Name(e))

\* vault.getAbstractFileByPath(path): the entry at that path, or null
getAbstractFileByPath(ch, fs, path) ==
    IF \E e \in Present(ch, fs) : PathOf(ch, fs, e) = path
    THEN CHOOSE e \in Present(ch, fs) : PathOf(ch, fs, e) = path
    ELSE Null

-----------------------------------------------------------------------------
(* Patterns: the regular expressions the rules of the model use.           *)

PdfPattern == "\\.pdf$"
BadPattern == "["

EndsWith(s, t) ==
    /\ Len(s) >= Len(t)
    /\ SubSeq(s, Len(s) - Len(t) + 1, Len(s)) = t

\* new RegExp(p) throws on an unbalanced bracket
Compiles(p) == p # BadPattern

\* pattern.test(name): an unanchored search of the base name
Test(p, n) ==
    CASE p = PdfPattern -> EndsWith(Chars(n), <<".", "p", "d", "f">>)
      [] OTHER -> FALSE

-----------------------------------------------------------------------------
(* Rules and initial states.                                               *)

InboxPath == <<"Inbox">>
PdfsPath == <<"Inbox", "PDFs">>
OutPath == <<"Out">>
FilePath == <<"Inbox", "b.txt">>
MissingPath == <<"Missing">>

\* MoveRule (main.ts:3-10); id and name play no part in the execution.
RuleSet ==
    [sourcePath : {InboxPath, FilePath, MissingPath},
     filePattern : {PdfPattern, BadPattern},
     targetPath : {PdfsPath, OutPath},
     enabled : BOOLEAN]

DisabledRule ==
    [sourcePath |-> InboxPath, filePattern |-> PdfPattern,
     targetPath |-> OutPath, enabled |-> FALSE]

Perms(S) == {s \in [1..Cardinality(S) -> S] : Range(s) = S}

\* The children of Inbox in the initial trees, in every order. The tree has
\* a folder Inbox/PDFs to begin with only where the rule moves into it. Where
\* both commands run the same rule, Inbox begins as a.pdf, Archive, d.pdf.
InboxOrders(rule, twice) ==
    IF twice THEN {<<"fa", "Archive", "fd">>}
    ELSE UNION {Perms(S) : S \in
            {{"fa", "fb", "Archive"}, {"fa", "Archive", "fd"}}
                \cup (IF rule.targetPath = PdfsPath
                      THEN {{"fa", "fb", "Archive", "PDFs"}} ELSE {})}

\* Out is absent, empty, or holds a file named a.pdf or c.pdf already.
\* It exists only where the rule moves into it.
OutStates(rule, twice) ==
    IF rule.targetPath # OutPath THEN {"absent"}
    ELSE IF twice THEN {"empty"}
    ELSE {"absent", "empty", "has a.pdf", "has c.pdf"}

InitTree(inbox, out) ==
    [d \in Folders |->
        CASE d = "Inbox" -> inbox
          [] d = "Archive" -> <<"fc">>
          [] d = "Out" -> IF out = "has a.pdf" THEN <<"fx">>
                          ELSE IF out = "has c.pdf" THEN <<"fy">>
                          ELSE <<>>
          [] OTHER -> <<>>]

InitFolders(inbox, out) ==
    {"Inbox", "Archive"}
        \cup (IF "PDFs" \in Range(inbox) THEN {"PDFs"} ELSE {})
        \cup (IF out # "absent" THEN {"Out"} ELSE {})

Init ==
    /\ \E r \in RuleSet, r2 \in RuleSet :
          /\ r2 \in {r, DisabledRule}
          /\ rules = [i \in Inv |-> IF i = "cmd1" THEN r ELSE r2]
          /\ \E inbox \in InboxOrders(r, r2 = r), out \in OutStates(r, r2 = r) :
                /\ children = InitTree(inbox, out)
                /\ folders = InitFolders(inbox, out)
    /\ children0 = children
    /\ showMoveNotification \in BOOLEAN
    /\ isCommandExecuting = FALSE
    /\ pc = [i \in Inv |-> "idle"]
    /\ stack = [i \in Inv |-> <<>>]
    /\ renames = <<>>
    /\ notices = [i \in Inv |-> <<>>]
    /\ creates = [i \in Inv |-> 0]
    /\ compiles = [i \in Inv |-> 0]
    /\ tests = [i \in Inv |-> [f \in Files |-> 0]]
    /\ modNotices = 0
    /\ startedAfter = [i \in Inv |-> {}]
    /\ visited = [i \in Inv |-> {}]

-----------------------------------------------------------------------------
(* The event loop.                                                         *)

Top(i) == stack[i][Len(stack[i])]

\* the promises never taken as settled
SettledNever(ps) == FALSE

\* the promises taken as settled without waiting
SettledUnawaited(ps) == TRUE

\* Promise.all(ps) has resolved: moveFile never rejects, so once each has ended
Settled(ps) == \A r \in ps : renames[r].status # "pending"

\* The callback has a continuation in the microtask queue.
Runnable(i) ==
    \/ pc[i] \in {"enter", "compile", "returned"}
    \/ /\ pc[i] = "walk"
       /\ \/ Top(i).phase = "loop"
          \/ Settled(Top(i).promises)

\* No microtask is left: the event loop takes the next macrotask.
Quiet == \A i \in Inv : ~Runnable(i)

-----------------------------------------------------------------------------
(* The command callback (main.ts:43-47) and executeMoveRule (main.ts:68-99) *)

Ended == {i \in Inv : pc[i] = "done"}

\* the flag left as it was at entry
FlagAtEntryKept(old) == old

\* line 44: the value the flag takes at entry
FlagAtEntry(old) == TRUE

\* callback, line 44: the user runs the command; the flag is raised.
Start(i) ==
    /\ Quiet
    /\ pc[i] = "idle"
    /\ pc' = [pc EXCEPT ![i] = "enter"]
    /\ isCommandExecuting' = FlagAtEntry(isCommandExecuting)
    /\ startedAfter' = [startedAfter EXCEPT ![i] = Ended]
    /\ UNCHANGED <<children, folders, rules, showMoveNotification, stack, renames,
                   notices, creates, compiles, tests, modNotices, children0, visited>>

\* the enabled check skipped
RuleDisabledNever(rule) == FALSE

\* line 69
RuleDisabled(rule) == ~rule.enabled

\* the source checked for null alone
SourceInvalidNullOnly(sourceFolder) == sourceFolder = Null

\* line 75: sourceFolder is null or no TFolder
SourceInvalid(sourceFolder) == sourceFolder = Null \/ sourceFolder \notin Folders

\* the target never created
TargetMissingNever(targetFolder) == FALSE

\* createFolder called whatever targetPath resolves to
TargetMissingAlways(targetFolder) == TRUE

\* line 82: createFolder is called only when targetPath resolves to nothing
TargetMissing(targetFolder) == targetFolder = Null

\* lines 69-89 up to the first suspension: the checks of the rule, of the source
\* and of the target, and the call of createFolder.
Execute(i) ==
    /\ pc[i] = "enter"
    /\ LET rule == rules[i]
           sourceFolder == getAbstractFileByPath(children, folders, rule.sourcePath)
           targetFolder == getAbstractFileByPath(children, folders, rule.targetPath)
       IN  IF RuleDisabled(rule)
           THEN /\ notices' = [notices EXCEPT ![i] = Append(@, "disabled")]
                /\ pc' = [pc EXCEPT ![i] = "returned"]
                /\ UNCHANGED creates
           ELSE IF SourceInvalid(sourceFolder)
           THEN /\ notices' = [notices EXCEPT ![i] = Append(@, "source not found")]
                /\ pc' = [pc EXCEPT ![i] = "returned"]
                /\ UNCHANGED creates
           ELSE IF TargetMissing(targetFolder)
           THEN /\ creates' = [creates EXCEPT ![i] = @ + 1]
                /\ pc' = [pc EXCEPT ![i] = "mkdir"]
                /\ UNCHANGED notices
           ELSE /\ pc' = [pc EXCEPT ![i] = "compile"]
                /\ UNCHANGED <<notices, creates>>
    /\ UNCHANGED <<children, folders, rules, showMoveNotification, isCommandExecuting,
                   stack, renames, compiles, tests, modNotices, startedAfter,
                   children0, visited>>

\* The folder a createFolder of this path makes.
FolderAt(path) == CHOOSE d \in Folders : FolderPath(d) = path

\* vault.createFolder succeeds: the folder joins the tree, last among the
\* children of its parent (the vault root's own children are not walked).
FolderCreated(ch, fs, d) ==
    LET parent == ParentOf(ch, fs, d)
    IN  IF parent = Null THEN ch
        ELSE [ch EXCEPT ![parent] = Append(@, d)]

\* lines 83-88: createFolder settles. It rejects when the path exists by now
\* and may reject for a failure of the store.
CreateFolderDone(i) ==
    /\ Quiet
    /\ pc[i] = "mkdir"
    /\ LET d == FolderAt(rules[i].targetPath)
       IN  \E ok \in BOOLEAN :
             /\ ok => d \notin folders
             /\ IF ok
                THEN /\ folders' = folders \cup {d}
                     /\ children' = FolderCreated(children, folders, d)
                     /\ pc' = [pc EXCEPT ![i] = "compile"]
                     /\ UNCHANGED notices
                ELSE /\ notices' = [notices EXCEPT ![i] =
                                        Append(@, "failed to create target folder")]
                     /\ pc' = [pc EXCEPT ![i] = "returned"]
                     /\ UNCHANGED <<children, folders>>
    /\ UNCHANGED <<rules, showMoveNotification, isCommandExecuting, stack, renames,
                   creates, compiles, tests, modNotices, startedAfter, children0, visited>>

\* A processFolder call at its first statement (line 103).
Frame(folder) == [folder |-> folder, idx |-> 0, promises |-> {}, phase |-> "loop"]

\* lines 92-98: new RegExp; on success the walk of the source folder begins,
\* with the handle resolved at line 74.
Compile(i) ==
    /\ pc[i] = "compile"
    /\ compiles' = [compiles EXCEPT ![i] = @ + 1]
    /\ IF Compiles(rules[i].filePattern)
       THEN LET sourceFolder ==
                    getAbstractFileByPath(children, folders, rules[i].sourcePath)
            IN  /\ stack' = [stack EXCEPT ![i] = <<Frame(sourceFolder)>>]
                /\ visited' = [visited EXCEPT ![i] = @ \cup {sourceFolder}]
                /\ pc' = [pc EXCEPT ![i] = "walk"]
                /\ UNCHANGED notices
       ELSE /\ notices' = [notices EXCEPT ![i] = Append(@, "invalid regular expression")]
            /\ pc' = [pc EXCEPT ![i] = "returned"]
            /\ UNCHANGED <<stack, visited>>
    /\ UNCHANGED <<children, folders, rules, showMoveNotification, isCommandExecuting,
                   renames, creates, tests, modNotices, startedAfter, children0>>

\* the flag left as it was at exit
FlagAtExitKept(old) == old

\* line 46: the value the flag takes at exit
FlagAtExit(old) == FALSE

\* callback, line 46: executeMoveRule has returned; the flag is lowered.
Finish(i) ==
    /\ pc[i] = "returned"
    /\ pc' = [pc EXCEPT ![i] = "done"]
    /\ isCommandExecuting' = FlagAtExit(isCommandExecuting)
    /\ UNCHANGED <<children, folders, rules, showMoveNotification, stack, renames,
                   notices, creates, compiles, tests, modNotices, startedAfter,
                   children0, visited>>

-----------------------------------------------------------------------------
(* processFolder (main.ts:101-121) and moveFile (main.ts:124-135)          *)

\* the file's folder kept under the target
NewPathKeepsDir(targetPath, name) == targetPath \o <<"Archive", name>>

\* line 112: `${targetPath}/${child.name}`
NewPath(targetPath, name) == Append(targetPath, name)

\* line 113: moveFile runs up to its await of vault.rename (line 126); oldPath
\* is file.path as the call is made.
Rename(i, child, newPath) ==
    [inv |-> i, file |-> child, oldPath |-> PathOf(children, folders, child),
     newPath |-> newPath, status |-> "pending", notice |-> FALSE, log |-> "none"]

\* line 105, one turn of the array iterator: it reads the live children array
\* at its own index, and ends once the index has reached the array's length.
HasNext(arr, idx) == idx < Len(arr)

\* line 111
Matches(pattern, child) == Test(pattern, Name(child))

\* lines 105-117: one iteration of the loop, or the loop's end (line 120).
WalkStep(i) ==
    /\ pc[i] = "walk"
    /\ Top(i).phase = "loop"
    /\ LET n == Len(stack[i])
           fr == Top(i)
           arr == children[fr.folder]
           rule == rules[i]
       IN  IF HasNext(arr, fr.idx)
           THEN LET child == arr[fr.idx + 1]
                    next == [fr EXCEPT !.idx = @ + 1]
                IN  IF child \in Folders
                    THEN /\ stack' = [stack EXCEPT ![i] =
                                 Append([@ EXCEPT ![n] = next], Frame(child))]
                         /\ visited' = [visited EXCEPT ![i] = @ \cup {child}]
                         /\ UNCHANGED <<renames, tests>>
                    ELSE /\ tests' = [tests EXCEPT ![i][child] = @ + 1]
                         /\ UNCHANGED visited
                         /\ IF Matches(rule.filePattern, child)
                            THEN /\ renames' = Append(renames,
                                      Rename(i, child,
                                             NewPath(rule.targetPath, Name(child))))
                                 /\ stack' = [stack EXCEPT ![i][n] =
                                      [next EXCEPT !.promises = @ \cup {Len(renames) + 1}]]
                            ELSE /\ stack' = [stack EXCEPT ![i][n] = next]
                                 /\ UNCHANGED renames
           ELSE /\ stack' = [stack EXCEPT ![i][n].phase = "await"]
                /\ UNCHANGED <<renames, tests, visited>>
    /\ UNCHANGED <<children, folders, rules, showMoveNotification, isCommandExecuting,
                   pc, notices, creates, compiles, modNotices, startedAfter,
                   children0>>

\* line 120: every promise of this call has settled; the call returns to the
\* await of line 108, or to executeMoveRule (line 94), which then returns.
AwaitAll(i) ==
    /\ pc[i] = "walk"
    /\ Top(i).phase = "await"
    /\ Settled(Top(i).promises)
    /\ stack' = [stack EXCEPT ![i] = Front(@)]
    /\ pc' = [pc EXCEPT ![i] = IF Len(stack[i]) = 1 THEN "returned" ELSE "walk"]
    /\ UNCHANGED <<children, folders, rules, showMoveNotification, isCommandExecuting,
                   renames, notices, creates, compiles, tests, modNotices,
                   startedAfter, children0, visited>>

\* vault.rename(file, newPath), the outcomes the store can give:
\*   the destination folder does not exist, or another entry has the path:
\*     an error;
\*   the file is at that path already: an error ("destination exists") or
\*     nothing to do, as the store pleases;
\*   otherwise the file moves.
RenameOutcomes(ch, fs, file, newPath) ==
    LET at == getAbstractFileByPath(ch, fs, newPath)
        into == getAbstractFileByPath(ch, fs, Front(newPath))
    IN  IF into \notin fs THEN {"failed"}
        ELSE IF at = file THEN {"failed", "same"}
        ELSE IF at # Null THEN {"failed"}
        ELSE {"moved"}

\* the file added to its new parent and left in its old one
MovedCopies(ch, fs, file, newPath) ==
    LET into == getAbstractFileByPath(ch, fs, Front(newPath))
    IN  [ch EXCEPT ![into] = Append(@, file)]

\* The tree after a rename that moved the file: it leaves the children array
\* of its old parent and joins the end of its new parent's.
Moved(ch, fs, file, newPath) ==
    LET from == ParentOf(ch, fs, file)
        into == getAbstractFileByPath(ch, fs, Front(newPath))
    IN  [d \in Folders |->
            IF d = into THEN Append(Remove(ch[d], file), file)
            ELSE IF d = from THEN Remove(ch[d], file)
            ELSE ch[d]]

\* lines 127-129: the Notice of a move is shown when notifications are on
SuccessNotice(show) == show

\* line 133: the Notice of a failed move
FailureNotice(show) == TRUE

\* lines 126-134: vault.rename settles and moveFile runs to its end.
RenameDone(r) ==
    /\ Quiet
    /\ renames[r].status = "pending"
    /\ \E out \in RenameOutcomes(children, folders, renames[r].file, renames[r].newPath) :
          IF out = "failed"
          THEN /\ renames' = [renames EXCEPT ![r] =
                     [@ EXCEPT !.status = "failed",
                               !.notice = FailureNotice(showMoveNotification),
                               !.log = "error"]]
               /\ UNCHANGED children
          ELSE /\ renames' = [renames EXCEPT ![r] =
                     [@ EXCEPT !.status = "moved",
                               !.notice = SuccessNotice(showMoveNotification),
                               !.log = "log"]]
               /\ children' = IF out = "moved"
                              THEN Moved(children, folders, renames[r].file,
                                         renames[r].newPath)
                              ELSE children
    /\ UNCHANGED <<folders, rules, showMoveNotification, isCommandExecuting, pc, stack,
                   notices, creates, compiles, tests, modNotices, startedAfter,
                   children0, visited>>

-----------------------------------------------------------------------------
(* The modify observer (main.ts:30-36)                                     *)

\* Notices of the observer that the model counts.
MaxModify == 1

\* line 32
ObserverShows == isCommandExecuting /\ showMoveNotification

\* Some file of the vault is modified and the vault raises 'modify'.
ModifyEvent ==
    /\ Quiet
    /\ modNotices < MaxModify
    /\ modNotices' = IF ObserverShows THEN modNotices + 1 ELSE modNotices
    /\ UNCHANGED <<children, folders, rules, showMoveNotification, isCommandExecuting,
                   pc, stack, renames, notices, creates, compiles, tests,
                   startedAfter, children0, visited>>

-----------------------------------------------------------------------------

Next ==
    \/ \E i \in Inv : Start(i)
    \/ \E i \in Inv : Execute(i)
    \/ \E i \in Inv : CreateFolderDone(i)
    \/ \E i \in Inv : Compile(i)
    \/ \E i \in Inv : WalkStep(i)
    \/ \E i \in Inv : AwaitAll(i)
    \/ \E i \in Inv : Finish(i)
    \/ \E r \in 1..Len(renames) : RenameDone(r)
    \/ ModifyEvent

Spec == Init /\ [][Next]_vars

\* The callback's next continuation: the steps exclude one another by pc.
Continue(i) ==
    \/ Execute(i)
    \/ CreateFolderDone(i)
    \/ Compile(i)
    \/ WalkStep(i)
    \/ AwaitAll(i)
    \/ Finish(i)

\* The event loop runs every queued continuation, and every createFolder and
\* rename the vault has been asked for settles. Nothing obliges the user to run
\* a command, nor the vault to raise 'modify'.
Fairness ==
    /\ \A i \in Inv : WF_vars(Continue(i))
    /\ WF_vars(\E r \in 1..Len(renames) : RenameDone(r))

\* The initial states of the fair specification: showMoveNotification decides
\* no branch of the callback, so two working invocations are taken with it off.
FairInit == Init /\ (rules["cmd2"] = DisabledRule \/ ~showMoveNotification)

FairSpec == FairInit /\ [][Next]_vars /\ Fairness

-----------------------------------------------------------------------------
(* Vocabulary of the properties.                                           *)

Other(i) == Inv \ {i}

\* The only invocation so far: no other command has been run.
Solo(i) == \A j \in Other(i) : pc[j] = "idle"

\* Inside executeMoveRule: entered and not yet returned.
Executing(i) == pc[i] \in {"enter", "mkdir", "compile", "walk"}

\* The callback has run to its end.
Completed(i) == pc[i] = "done"

\* The renames the invocation has issued.
Issued(i) == {r \in 1..Len(renames) : renames[r].inv = i}

IssuedFor(i, f) == {r \in Issued(i) : renames[r].file = f}

Failed(i) == {r \in Issued(i) : renames[r].status = "failed"}

IsPrefix(p, q) == Len(p) <= Len(q) /\ SubSeq(q, 1, Len(p)) = p

\* The folder a file was in, in the initial tree.
Parent0(f) == CHOOSE d \in Folders : f \in Range(children0[d])

\* The files at any depth under the path in the initial tree.
FilesUnder0(path) ==
    {f \in Files : \E d \in Folders :
        f \in Range(children0[d]) /\ IsPrefix(path, FolderPath(d))}

\* The match set of the rule on the initial tree.
Matched0(rule) ==
    {f \in FilesUnder0(rule.sourcePath) : Test(rule.filePattern, Name(f))}

\* Where the file is now.
InFolder(f, d) == d \in folders /\ f \in Range(children[d])

\* The rule is enabled, its source is a folder and its pattern compiles.
ValidRule(rule) ==
    /\ rule.enabled
    /\ rule.sourcePath = InboxPath
    /\ Compiles(rule.filePattern)

\* The invocation reached the walk: the target existed or was created.
Walked(i) == ValidRule(rules[i]) /\ compiles[i] = 1

\* No two files of the match set, and no file of the match set and file in
\* the target folder, have the same base name in the initial tree.
NoCollision0(rule) ==
    \A f \in Matched0(rule) :
        \A g \in (Matched0(rule) \cup Range(children0[FolderAt(rule.targetPath)])) \ {f} :
            Name(g) # Name(f)

-----------------------------------------------------------------------------
(* Properties.                                                             *)

\* C1: once a single invocation of a valid rule has completed, with no
\* base-name collision and no rename that failed, every file that was under
\* sourcePath and matches the pattern is a direct child of targetPath, and
\* every other file under sourcePath is in the folder it was in.
C1_MatchesMovedOthersUntouched ==
    \A i \in Inv :
        (/\ Solo(i)
         /\ Completed(i)
         /\ Walked(i)
         /\ NoCollision0(rules[i])
         /\ Failed(i) = {})
        => \A f \in FilesUnder0(rules[i].sourcePath) :
              IF f \in Matched0(rules[i])
              THEN InFolder(f, FolderAt(rules[i].targetPath))
              ELSE InFolder(f, Parent0(f))

\* C2: an invocation whose filePattern does not compile issues no
\* createFolder and no rename.
C2_InvalidPatternNoMutation ==
    \A i \in Inv :
        ~Compiles(rules[i].filePattern) => creates[i] = 0 /\ Issued(i) = {}

\* C3: an invocation of a disabled rule issues no createFolder and no rename,
\* compiles no pattern, walks nothing, and reports "disabled" and nothing else;
\* run alone it leaves the tree as it was.
C3_DisabledDoesNothing ==
    \A i \in Inv :
        ~rules[i].enabled =>
            /\ creates[i] = 0
            /\ Issued(i) = {}
            /\ compiles[i] = 0
            /\ stack[i] = <<>>
            /\ pc[i] # "mkdir"
            /\ notices[i] = IF pc[i] \in {"returned", "done"}
                            THEN <<"disabled">> ELSE <<>>
            /\ Solo(i) => children = children0

\* A disabled rule with an absent source, an absent target and a pattern that
\* does not compile has been run to its end.
C3_Witness ==
    \E i \in Inv :
        /\ ~rules[i].enabled
        /\ Completed(i)
        /\ rules[i].sourcePath = MissingPath
        /\ rules[i].filePattern = BadPattern
        /\ FolderAt(rules[i].targetPath) \notin folders

\* The source path of the rule resolves to nothing or to a file.
SourceBad(i) ==
    getAbstractFileByPath(children, folders, rules[i].sourcePath) \notin folders

\* C4: an invocation of an enabled rule whose sourcePath is absent or is a file
\* reports "source not found" and nothing else, calls no createFolder (an absent
\* targetPath stays absent), compiles no pattern and issues no rename.
C4_SourceNotFoundAborts ==
    \A i \in Inv :
        (rules[i].enabled /\ SourceBad(i)) =>
            /\ creates[i] = 0
            /\ compiles[i] = 0
            /\ Issued(i) = {}
            /\ stack[i] = <<>>
            /\ pc[i] # "mkdir"
            /\ notices[i] = IF pc[i] \in {"returned", "done"}
                            THEN <<"source not found">> ELSE <<>>
            /\ Solo(i) => children = children0

\* An enabled rule whose source is the file Inbox/b.txt and whose target is
\* absent has been run to its end.
C4_Witness ==
    \E i \in Inv :
        /\ rules[i].enabled
        /\ Completed(i)
        /\ rules[i].sourcePath = FilePath
        /\ getAbstractFileByPath(children, folders, FilePath) = "fb"
        /\ FolderAt(rules[i].targetPath) \notin folders

\* C5: once a single invocation has completed in which exactly one rename
\* failed, every other file of the match set is a direct child of targetPath
\* and has a rename of its own that succeeded and was logged, the failed rename
\* was reported once, and the invocation reported no error of its own.
C5_Isolation ==
    \A i \in Inv :
        (/\ Solo(i)
         /\ Completed(i)
         /\ Walked(i)
         /\ Cardinality(Failed(i)) = 1)
        => /\ \A f \in Matched0(rules[i]) :
                 (\A r \in Failed(i) : renames[r].file # f) =>
                     /\ InFolder(f, FolderAt(rules[i].targetPath))
                     /\ \E r \in IssuedFor(i, f) :
                           renames[r].status = "moved" /\ renames[r].log = "log"
           /\ \A r \in Failed(i) : renames[r].notice /\ renames[r].log = "error"
           /\ notices[i] = <<>>

\* C6: when a command runs a rule after another command has run the same rule
\* alone and to its end with every rename succeeding, it issues no rename.
C6_SecondRunIssuesNothing ==
    \A i \in Inv : \A j \in Other(i) :
        (/\ rules[i] = rules[j]
         /\ j \in startedAfter[i]
         /\ startedAfter[j] = {}
         /\ Walked(j)
         /\ Failed(j) = {})
        => Issued(i) = {}

\* The rule of the example and its tree: Inbox/a.pdf, Inbox/b.txt,
\* Inbox/Archive/c.pdf, with or without Inbox/PDFs.
ExampleRule ==
    [sourcePath |-> InboxPath, filePattern |-> PdfPattern,
     targetPath |-> PdfsPath, enabled |-> TRUE]

ExampleTree0 ==
    /\ Range(children0["Inbox"]) \in {{"fa", "fb", "Archive"},
                                      {"fa", "fb", "Archive", "PDFs"}}
    /\ children0["Archive"] = <<"fc">>
    /\ children0["PDFs"] = <<>>

\* The example has run alone to its end, and Inbox/PDFs existed or was created.
ExampleDone(i) ==
    /\ Solo(i)
    /\ Completed(i)
    /\ rules[i] = ExampleRule
    /\ ExampleTree0
    /\ Walked(i)

\* The placement the example ends with.
ExamplePlaced ==
    /\ "PDFs" \in folders
    /\ InFolder("fa", "PDFs")
    /\ InFolder("fc", "PDFs")
    /\ InFolder("fb", "Inbox")

\* C7: the example ends with a.pdf and c.pdf as direct children of Inbox/PDFs,
\* b.txt still in Inbox, Inbox/PDFs existing, and no failure reported.
C7_Example ==
    \A i \in Inv :
        ExampleDone(i) => ExamplePlaced /\ Failed(i) = {}

\* C7, the placement alone.
C7_ExamplePlacement ==
    \A i \in Inv : ExampleDone(i) => ExamplePlaced

\* C8: whenever a command callback is inside executeMoveRule, the flag
\* isCommandExecuting is true.
C8_FlagWhileExecuting ==
    \A i \in Inv : Executing(i) => isCommandExecuting

\* No other callback has overlapped this one: each of the others has not
\* begun, or had ended when this one began.
Unoverlapped(i) ==
    \A j \in Other(i) : pc[j] = "idle" \/ j \in startedAfter[i]

\* C8, amended: whenever a command callback that no other callback has
\* overlapped is inside executeMoveRule, the flag isCommandExecuting is true.
C8_FlagWhileExecutingAlone ==
    \A i \in Inv : (Executing(i) /\ Unoverlapped(i)) => isCommandExecuting

\* A callback is in its walk, begun after the other callback had ended.
C8_Witness ==
    \E i \in Inv :
        /\ pc[i] = "walk"
        /\ Other(i) \subseteq startedAfter[i]
        /\ Issued(i) # {}

\* C9: with showMoveNotification false, a rename that failed has its
\* diagnostic log entry and no Notice.
C9_FailureNoticeOnlyIfEnabled ==
    \A r \in 1..Len(renames) :
        (renames[r].status = "failed" /\ ~showMoveNotification)
            => renames[r].log = "error" /\ ~renames[r].notice

\* C10: once a single invocation that reached the walk has completed, every
\* file that was under sourcePath has had its name tested exactly once and has
\* had at most one rename issued for it.
C10_EachFileTestedOnce ==
    \A i \in Inv :
        (Solo(i) /\ Completed(i) /\ Walked(i))
        => \A f \in FilesUnder0(rules[i].sourcePath) :
              /\ tests[i][f] = 1
              /\ Cardinality(IssuedFor(i, f)) <= 1

\* C10, one half: no file under sourcePath is left untested.
C10_NoFileSkipped ==
    \A i \in Inv :
        (Solo(i) /\ Completed(i) /\ Walked(i))
        => \A f \in FilesUnder0(rules[i].sourcePath) : tests[i][f] >= 1

\* C10, the other half: no file under sourcePath is tested twice.
C10_NoFileTestedTwice ==
    \A i \in Inv :
        (Solo(i) /\ Walked(i))
        => \A f \in FilesUnder0(rules[i].sourcePath) : tests[i][f] <= 1

\* The folders at any depth under the path, the folder at the path included.
FoldersUnder(path) == {d \in folders : IsPrefix(path, FolderPath(d))}

\* C11: an invocation has issued a rename only once its walk has entered
\* every folder under sourcePath.
C11_WalkBeforeFirstRename ==
    \A i \in Inv :
        Issued(i) # {} => FoldersUnder(rules[i].sourcePath) \subseteq visited[i]

\* C12: when an invocation issues a rename, none of the renames it has issued
\* before has completed: it has not waited for any of them.
C12_IssuedBeforeAnyCompletion ==
    [][\A i \in Inv :
          (Len(renames') > Len(renames) /\ renames'[Len(renames')].inv = i)
              => \A r \in Issued(i) : renames[r].status = "pending"]_vars

\* C13: once executeMoveRule has returned, and so once the callback has cleared
\* the flag, no rename the invocation issued is still pending.
C13_ReturnsAfterAllRenames ==
    \A i \in Inv :
        pc[i] \in {"returned", "done"}
            => \A r \in Issued(i) : renames[r].status # "pending"

\* An invocation has ended with a rename that moved and a rename that failed.
C13_Witness ==
    \E i \in Inv :
        /\ Completed(i)
        /\ \E r \in Issued(i) : renames[r].status = "moved"
        /\ Failed(i) # {}

\* C14: the pattern is compiled at most once per invocation, only after the
\* enabled check, the source check and the target's resolution or creation have
\* passed, and before the walk begins and any rename is issued.
C14_ChecksThenCompileThenMoves ==
    \A i \in Inv :
        /\ compiles[i] <= 1
        /\ pc[i] \in {"idle", "enter", "mkdir", "compile"} => compiles[i] = 0
        /\ compiles[i] = 1 =>
              /\ rules[i].enabled
              /\ ~SourceBad(i)
              /\ FolderAt(rules[i].targetPath) \in folders
              /\ notices[i] \in {<<>>, <<"invalid regular expression">>}
        /\ (pc[i] = "walk" \/ visited[i] # {} \/ Issued(i) # {} \/ stack[i] # <<>>)
              => compiles[i] = 1 /\ Compiles(rules[i].filePattern)

\* An invocation created its target, compiled once and issued several renames.
C14_Witness ==
    \E i \in Inv :
        /\ creates[i] = 1
        /\ compiles[i] = 1
        /\ Cardinality(Issued(i)) >= 2

\* C15: the destination of every rename is the rule's targetPath followed by
\* the file's base name and nothing else.
C15_Flattening ==
    \A r \in 1..Len(renames) :
        /\ renames[r].file \in Files
        /\ renames[r].newPath =
              rules[renames[r].inv].targetPath \o <<Name(renames[r].file)>>

\* Inbox/Archive/c.pdf, two levels down, has been moved right under the target.
C15_Witness ==
    \E r \in 1..Len(renames) :
        /\ renames[r].file = "fc"
        /\ renames[r].status = "moved"
        /\ \E i \in Inv : InFolder("fc", FolderAt(rules[i].targetPath))
        /\ ~InFolder("fc", "Archive")

\* The folders at any depth under the path in the initial tree.
FoldersUnder0(path) ==
    {d \in Folders :
        /\ IsPrefix(path, FolderPath(d))
        /\ FolderPath(d) = path \/ \E e \in Folders : d \in Range(children0[e])}

\* C16: no rename is issued for a folder, and once a single invocation that
\* reached the walk has completed, it has entered every folder that was under
\* sourcePath.
C16_NoFolderMovedNoneSkipped ==
    \A i \in Inv :
        /\ \A r \in Issued(i) : renames[r].file \notin Folders
        /\ (Solo(i) /\ Completed(i) /\ Walked(i))
              => FoldersUnder0(rules[i].sourcePath) \subseteq visited[i]

\* C16, one half: no rename is issued for a folder.
C16_NoFolderMoved ==
    \A r \in 1..Len(renames) : renames[r].file \notin Folders

\* C17: createFolder is called at most once per invocation, by an enabled rule
\* with a valid source, and not when targetPath resolves to an entry; when it
\* fails, the invocation reports "failed to create target folder" once and
\* returns with no pattern compiled, no walk and no rename.
C17_TargetCreationFailureAborts ==
    \A i \in Inv :
        /\ creates[i] <= 1
        /\ creates[i] = 1 => rules[i].enabled /\ ~SourceBad(i)
        /\ (pc[i] = "mkdir" /\ Solo(i)) => FolderAt(rules[i].targetPath) \notin folders
        /\ (rules[i].targetPath = PdfsPath /\ "PDFs" \in Range(children0["Inbox"]))
              => creates[i] = 0
        /\ "failed to create target folder" \in Range(notices[i]) =>
              /\ notices[i] = <<"failed to create target folder">>
              /\ creates[i] = 1
              /\ compiles[i] = 0
              /\ visited[i] = {}
              /\ stack[i] = <<>>
              /\ Issued(i) = {}
              /\ pc[i] \in {"returned", "done"}

\* An invocation has ended on the failure of createFolder.
C17_Witness ==
    \E i \in Inv :
        /\ Completed(i)
        /\ notices[i] = <<"failed to create target folder">>
        /\ FolderAt(rules[i].targetPath) \notin folders

\* C18: every invocation that has begun runs to the end of its callback, where
\* the flag is cleared.
C18_EveryInvocationEnds ==
    \A i \in Inv : (pc[i] # "idle") ~> (pc[i] = "done")

\* An invocation whose target is inside its source has ended, having entered
\* the target folder and with a rename that failed.
C18_Witness ==
    \E i \in Inv :
        /\ Completed(i)
        /\ rules[i].targetPath = PdfsPath
        /\ "PDFs" \in visited[i]
        /\ Failed(i) # {}

\* The files of the initial tree.
Files0 == {f \in Files : \E d \in Folders : f \in Range(children0[d])}

\* The places a file has in the children arrays.
Places(f) ==
    UNION {{<<d, k>> : k \in {j \in DOMAIN children[d] : children[d][j] = f}} :
             d \in Folders}

\* Every file of the initial tree is in exactly one children array, once, in a
\* folder that exists; no other file has appeared; no two files of one folder
\* have the same name, so no two have the same path.
Conserved ==
    /\ \A f \in Files : Cardinality(Places(f)) = IF f \in Files0 THEN 1 ELSE 0
    /\ \A d \in Folders \ folders : children[d] = <<>>
    /\ \A d \in folders : \A j \in DOMAIN children[d] : \A k \in DOMAIN children[d] :
          (j # k /\ children[d][j] \in Files /\ children[d][k] \in Files)
              => Name(children[d][j]) # Name(children[d][k])

\* The file of the rename is at the path it had when the rename was called.
AtOldPath(r) == PathOf(children, folders, renames[r].file) = renames[r].oldPath

NoneInProgress == \A i \in Inv : pc[i] \in {"idle", "done"}

\* C20: whenever no command callback is in progress, isCommandExecuting is
\* false, and so the modify observer shows no Notice.
C20_FlagFalseWhenIdle ==
    NoneInProgress => ~isCommandExecuting /\ ~ObserverShows

\* Two overlapping invocations have both ended, one of them on an error.
C20_Witness ==
    /\ \A i \in Inv : Completed(i) /\ ~Unoverlapped(i)
    /\ \E i \in Inv : notices[i] # <<>> /\ rules[i].enabled
    /\ showMoveNotification

====
